---- MODULE Spec2Model ----
(***************************************************************************)
(* A model of packages/runtime/src/Content.tsx: the build pipeline         *)
(* (build, bundle, renderPages), the output path derivation                *)
(* (normalizeHtmlFilePath), the marker substitution of a page, and the      *)
(* components Content and TransitionContent.                               *)
(*                                                                         *)
(* Text is modelled as a sequence of tokens.  A token is one character     *)
(* ("/", "a", "$", ...) or one indivisible piece of text that the code     *)
(* only ever handles as a whole ("index", ".html", the markers).           *)
(***************************************************************************)
EXTENDS Integers, Sequences, FiniteSets, TLC

\* ------------------------------------------------------------------------
\* Bounds of the model
\* ------------------------------------------------------------------------

\* longest route path (in tokens) given to normalizeHtmlFilePath in SpecPath
MaxPathLen == 4

\* longest configured base (in tokens) in SpecPath
MaxBaseLen == 2

\* longest text (in tokens) put into a page in SpecHtml
MaxTextLen == 2

\* most routes of a build: those of the route service and those plugins add
MaxRoutes == 2

\* most routes of the virtual route table given to Content in SpecContent
MaxTableLen == 2

\* most renders of Content in SpecContent
MaxRenders == 3

\* ------------------------------------------------------------------------
\* Text helpers (JavaScript String semantics on token sequences)
\* ------------------------------------------------------------------------

\* all token sequences over S of length 0..n
SeqsUpTo(S, n) == UNION {[1..k -> S] : k \in 0..n}

\* String.prototype.endsWith for a one-token suffix
endsWith(s, c) == Len(s) > 0 /\ s[Len(s)] = c

\* String.prototype.startsWith
startsWith(s, p) == Len(p) <= Len(s) /\ SubSeq(s, 1, Len(p)) = p

\* String.prototype.includes for a one-token needle
includes(s, c) == \E i \in 1..Len(s) : s[i] = c

\* whether pat occurs in s at position i (1-based)
OccursAt(s, pat, i) ==
    /\ i >= 1
    /\ i + Len(pat) - 1 <= Len(s)
    /\ SubSeq(s, i, i + Len(pat) - 1) = pat

\* String.prototype.indexOf, 1-based; 0 when pat does not occur.
\* The empty pattern occurs at position 1.
indexOf(s, pat) ==
    IF \E i \in 1..(Len(s) + 1) : OccursAt(s, pat, i)
    THEN CHOOSE i \in 1..(Len(s) + 1) :
            /\ OccursAt(s, pat, i)
            /\ \A j \in 1..(i - 1) : ~OccursAt(s, pat, j)
    ELSE 0

\* s.replace(pat, () => rep): the first occurrence of the string pattern pat
\* is replaced by rep, taken verbatim.
replaceFn(s, pat, rep) ==
    LET i == indexOf(s, pat)
    IN  IF i = 0 THEN s
        ELSE SubSeq(s, 1, i - 1) \o rep \o SubSeq(s, i + Len(pat), Len(s))

\* GetSubstitution of a replacement string for a string pattern (no capture
\* groups): "$$" is "$", "$&" the matched text, "$" and a backtick the text
\* before the match, "$" and an apostrophe the text after it; any other
\* token stands for itself.  The tokens "BACKTICK" and "APOSTROPHE" are the
\* two characters of those names.
RECURSIVE getSubstitution(_, _, _, _)
getSubstitution(rep, matched, before, after) ==
    IF rep = <<>> THEN <<>>
    ELSE IF rep[1] = "$" /\ Len(rep) >= 2 /\ rep[2] \in {"$", "&", "BACKTICK", "APOSTROPHE"}
         THEN (CASE rep[2] = "$" -> <<"$">>
                 [] rep[2] = "&" -> matched
                 [] rep[2] = "BACKTICK" -> before
                 [] OTHER        -> after)
              \o getSubstitution(SubSeq(rep, 3, Len(rep)), matched, before, after)
         ELSE <<rep[1]>> \o getSubstitution(Tail(rep), matched, before, after)

\* s.replace(pat, rep) with a replacement STRING: the first occurrence of
\* pat is replaced by the expansion of rep.
replaceStr(s, pat, rep) ==
    LET i == indexOf(s, pat)
    IN  IF i = 0 THEN s
        ELSE LET before == SubSeq(s, 1, i - 1)
                 after  == SubSeq(s, i + Len(pat), Len(s))
             IN  before \o getSubstitution(rep, pat, before, after) \o after

\* ------------------------------------------------------------------------
\* Paths
\* ------------------------------------------------------------------------

\* a path without empty segments: runs of "/" collapsed to one "/"
RECURSIVE collapseSlashes(_)
collapseSlashes(s) ==
    IF Len(s) < 2 THEN s
    ELSE IF s[1] = "/" /\ s[2] = "/" THEN collapseSlashes(Tail(s))
         ELSE <<s[1]>> \o collapseSlashes(Tail(s))

addLeadingSlash(url) == IF startsWith(url, <<"/">>) THEN url ELSE <<"/">> \o url

removeTrailingSlash(url) ==
    IF endsWith(url, "/") THEN SubSeq(url, 1, Len(url) - 1) ELSE url

\* normalizeSlash of @rspress/shared: one leading slash, no trailing slash,
\* no empty segment; "/" and "" both normalize to "".
normalizeSlash(url) == removeTrailingSlash(addLeadingSlash(collapseSlashes(url)))

\* withBase of @rspress/shared: the url under the normalized base
withBase(url, base) == normalizeSlash(base) \o addLeadingSlash(url)

\* replaceAll in the place of replace: every occurrence of the base removed
RECURSIVE removeAll(_, _)
removeAll(s, pat) ==
    IF pat = <<>> \/ indexOf(s, pat) = 0 THEN s
    ELSE removeAll(replaceFn(s, pat, <<>>), pat)

normalizeHtmlFilePath_removeAll(path, configBase) ==
    LET normalizedBase ==
            normalizeSlash(IF configBase = <<>> THEN <<"/">> ELSE configBase)
    IN  IF endsWith(path, "/")
        THEN removeAll(path \o <<"index", ".html">>, normalizedBase)
        ELSE removeAll(path \o <<".html">>, normalizedBase)

\* normalizeHtmlFilePath (config.base is configBase; "" when it is not set)
normalizeHtmlFilePath(path, configBase) ==
    LET normalizedBase ==
            normalizeSlash(IF configBase = <<>> THEN <<"/">> ELSE configBase)
    IN  IF endsWith(path, "/")
        THEN replaceStr(path \o <<"index", ".html">>, normalizedBase, <<>>)
        ELSE replaceStr(path \o <<".html">>, normalizedBase, <<>>)

\* join(outputPath, fileName) of node:path, as the path below outputPath:
\* empty segments vanish, so a leading "/" of fileName does
joinOutput(fileName) ==
    LET c == collapseSlashes(fileName)
    IN  IF startsWith(c, <<"/">>) THEN Tail(c) ELSE c

\* ------------------------------------------------------------------------
\* The page of a route
\* ------------------------------------------------------------------------

\* the markers of ./constants, each one token
APP_HTML_MARKER == "<!--<?- DOC_CONTENT ?>-->"
HEAD_MARKER == "<!--<?- HEAD ?>-->"
HTML_START_TAG == "<html"
BODY_START_TAG == "<body"

\* the theme-detection script, one token
CHECK_DARK_LIGHT_SCRIPT == "<script id=check-dark-light>"

\* the template the client build leaves in html/main/index.html
HtmlTemplate ==
    <<HTML_START_TAG, ">", "<head>", HEAD_MARKER, "</head>", BODY_START_TAG, ">",
      "<div id=root>", APP_HTML_MARKER, "</div>">>

\* helmetContext.context.helmet when nothing was collected (undefined)
NoHelmet == [set |-> FALSE]

\* Array.prototype.join(''): the texts of a list, one after the other
RECURSIVE joinTexts(_)
joinTexts(list) ==
    IF list = <<>> THEN <<>> ELSE Head(list) \o joinTexts(Tail(list))

\* helmet?.<field>?.toString(): nothing when helmet is undefined
helmetText(helmet, field) == IF helmet.set THEN helmet[field] ELSE <<>>

\* lines 214-223: the text that replaces the head marker
headText(configHead, helmet) ==
    joinTexts(configHead
              \o << helmetText(helmet, "title"), helmetText(helmet, "meta"),
                    helmetText(helmet, "link"), helmetText(helmet, "style"),
                    helmetText(helmet, "script"), <<CHECK_DARK_LIGHT_SCRIPT>> >>)

\* the page with every substituted text taken verbatim
verbatimHtml(htmlTemplate, appHtml, configHead, helmet) ==
    LET h1 == replaceFn(htmlTemplate, <<APP_HTML_MARKER>>, appHtml)
        h2 == replaceFn(h1, <<HEAD_MARKER>>, headText(configHead, helmet))
        h3 == IF helmet.set
              THEN replaceFn(h2, <<HTML_START_TAG>>,
                             <<HTML_START_TAG, " ">> \o helmet.htmlAttributes)
              ELSE h2
    IN  IF helmet.set
        THEN replaceFn(h3, <<BODY_START_TAG>>,
                       <<BODY_START_TAG, " ">> \o helmet.bodyAttributes)
        ELSE h3

\* lines 207-237: the page of a route.  The app-root marker is replaced
\* through a callback, the head marker and the two opening tags with a
\* replacement string.
renderHtml(htmlTemplate, appHtml, configHead, helmet) ==
    LET h1 == replaceFn(htmlTemplate, <<APP_HTML_MARKER>>, appHtml)
        h2 == replaceStr(h1, <<HEAD_MARKER>>, headText(configHead, helmet))
        h3 == IF helmet.set
              THEN replaceStr(h2, <<HTML_START_TAG>>,
                              <<HTML_START_TAG, " ">> \o helmet.htmlAttributes)
              ELSE h2
    IN  IF helmet.set
        THEN replaceStr(h3, <<BODY_START_TAG>>,
                        <<BODY_START_TAG, " ">> \o helmet.bodyAttributes)
        ELSE h3

\* the content of the app root of a page made from HtmlTemplate: the text
\* between "<div id=root>" and the last "</div>"
appRootOf(html) ==
    LET i == indexOf(html, <<"<div id=root>">>)
    IN  IF i = 0 \/ ~endsWith(html, "</div>") THEN <<"?">>
        ELSE SubSeq(html, i + 1, Len(html) - 1)

\* ------------------------------------------------------------------------
\* State
\* ------------------------------------------------------------------------

VARIABLES
    config,           \* options.config of build
    modifiedConfig,   \* what pluginDriver.modifyConfig() resolved to
    enableSSG,        \* build's enableSSG (line 268)
    step,             \* the calls build awaits: idle, running, done, failed
    job,              \* the calls bundle makes: idle, running, done, failed
    bpc,              \* where bundle stands
    bundleThrown,     \* bundle's try block threw: the error pends in finally
    searchIndexCalls, \* how often writeSearchIndex was called
    rpc,              \* where renderPages stands
    ssrImport,        \* the import of the SSR bundle: idle, pending, or its outcome
    render,           \* renderPages' render: "null" or "fn"
    routes,           \* [...routes, ...additionalRoutes] of the fan-out
    task,             \* the per-route tasks of the fan-out, by position
    files,            \* the HTML files below the output directory
    dirs,             \* the intermediate directories present: "ssr", "html"
    log,              \* what was logged, counted by kind
    pPath,            \* SpecPath: the route path given to normalizeHtmlFilePath
    pBase,            \* SpecPath: config.base
    pFile,            \* SpecPath: the file written below the output directory
    hApp,             \* SpecHtml: the appHtml of a route
    hHead,            \* SpecHtml: config.head
    hHelmet,          \* SpecHtml: the helmet collected for the route
    hHtml,            \* SpecHtml: the page made of them, or NoHtml
    cTable,           \* SpecContent: the routes of __VIRTUAL_ROUTES__
    cEnv,             \* SpecContent: __REACT_GTE_18__, __SSR__, enableContentAnimation
    cPathname,        \* SpecContent: the pathname of useLocation()
    cOut,             \* SpecContent: what Content returned on its last render
    cRenders,         \* SpecContent: how often Content was rendered
    tcEl,             \* TransitionContent: props.el of its last render, or Unmounted
    tcRuns,           \* TransitionContent: how often its body ran
    tcSkips,          \* TransitionContent: how often memo skipped its body
    tcWraps,          \* TransitionContent: how often useViewTransition was called
    tcOut             \* TransitionContent: the element its body returned last

buildVars == <<config, modifiedConfig, enableSSG, step>>
bundleVars == <<job, bpc, bundleThrown, searchIndexCalls>>
renderVars == <<rpc, ssrImport, render, routes, task, files, log>>
pipeVars == <<buildVars, bundleVars, renderVars, dirs>>
pathVars == <<pPath, pBase, pFile>>
htmlVars == <<hApp, hHead, hHelmet, hHtml>>
contentVars == <<cTable, cEnv, cPathname, cOut, cRenders, tcEl, tcRuns, tcSkips, tcWraps, tcOut>>
pureVars == <<pathVars, htmlVars, contentVars>>
vars == <<pipeVars, pathVars, htmlVars, contentVars>>

NoFile == <<"?">>
NoHtml == <<"?">>
NoConfig == [set |-> FALSE]

\* ------------------------------------------------------------------------
\* build (lines 265-279)
\* ------------------------------------------------------------------------

\* the configured bases: not set, and "/d"
Bases == {<<>>, <<"/", "d">>}

\* config.ssg: not set, true, false
SsgValues == {"unset", "true", "false"}

\* config.head
Heads == { << <<"<meta a>">> >> }

Configs == [set : {TRUE}, base : Bases, ssg : SsgValues, head : Heads]

\* what the plugins make of a config in modifyConfig: they may set ssg
modifiable(cfg) == {[cfg EXCEPT !.ssg = v] : v \in SsgValues}

\* the calls build awaits, in the order of lines 269-278
BuildOrder ==
    <<"init", "modifyConfig", "beforeBuild", "emptyDir", "bundle", "renderPages",
      "afterBuild">>

BuildSteps == {BuildOrder[i] : i \in 1..Len(BuildOrder)}

\* the calls bundle makes
BundleJobs ==
    {"clientInit", "ssrInit", "clientBuild", "ssrBuild", "pathExists", "copy",
     "searchIndex"}

\* line 268: config.ssg ?? true
enableSSGOf(cfg) == cfg.ssg # "false"

\* a build that goes on to the next call whether or not the call failed
continues_always(ok) == TRUE

\* an await in build: the next call is made only when the awaited one
\* fulfilled; a rejection rejects build (lines 269-278 hold no try)
continues(ok) == ok

\* Promise.all that settles with the first promise to settle
promiseAll_race(status, awaited) ==
    IF \E j \in awaited : status[j] = "failed" THEN "rejected"
    ELSE IF \E j \in awaited : status[j] = "done" THEN "fulfilled"
    ELSE "pending"

\* Promise.all over the awaited calls: rejected as soon as one failed,
\* fulfilled when all are done
promiseAll(status, awaited) ==
    IF \E j \in awaited : status[j] = "failed" THEN "rejected"
    ELSE IF \A j \in awaited : status[j] = "done" THEN "fulfilled"
    ELSE "pending"

\* the builders bundle initialises and builds (lines 103-124)
inits_both(ssg) == {"clientInit", "ssrInit"}
inits(ssg) == IF ssg THEN {"clientInit", "ssrInit"} ELSE {"clientInit"}
builds(ssg) == IF ssg THEN {"clientBuild", "ssrBuild"} ELSE {"clientBuild"}

InitPipe ==
    /\ config \in Configs
    /\ modifiedConfig = NoConfig
    /\ enableSSG = enableSSGOf(config)
    /\ step = [s \in BuildSteps |-> IF s = "init" THEN "running" ELSE "idle"]
    /\ job = [j \in BundleJobs |-> "idle"]
    /\ bpc = "idle"
    /\ bundleThrown = FALSE
    /\ searchIndexCalls = 0
    /\ rpc = "idle"
    /\ ssrImport = "idle"
    /\ render = "null"
    /\ routes = <<>>
    /\ task = <<>>
    /\ files = <<>>
    /\ dirs = {}
    /\ log = [loadWarn |-> 0, pagesError |-> 0, success |-> 0]

IdlePath ==
    /\ pPath = <<>>
    /\ pBase = <<>>
    /\ pFile = NoFile

IdleHtml ==
    /\ hApp = <<>>
    /\ hHead = <<>>
    /\ hHelmet = NoHelmet
    /\ hHtml = NoHtml

\* no element: what is rendered where nothing was rendered yet
Unmounted == 0
NoElement == [wrapped |-> FALSE, el |-> Unmounted]
NotRendered == [kind |-> "none", el |-> Unmounted]

IdleContent ==
    /\ cTable = <<>>
    /\ cEnv = [gte18 |-> TRUE, ssr |-> FALSE, animation |-> FALSE]
    /\ cPathname = <<>>
    /\ cOut = NotRendered
    /\ cRenders = 0
    /\ tcEl = Unmounted
    /\ tcRuns = 0
    /\ tcSkips = 0
    /\ tcWraps = 0
    /\ tcOut = NoElement

Init == InitPipe /\ IdlePath /\ IdleHtml /\ IdleContent

\* build was rejected: a call it awaited failed
buildRejected == \E s \in BuildSteps : step[s] = "failed"

\* line 276: bundle is called; its first calls are made (lines 104-106, 117)
EnterBundle(st) ==
    /\ step' = [st EXCEPT !["bundle"] = "running"]
    /\ job' = [j \in BundleJobs |-> IF j \in inits(enableSSG) THEN "running" ELSE job[j]]
    /\ bpc' = "init"
    /\ UNCHANGED <<bundleThrown, searchIndexCalls>>

\* lines 269-274: init, modifyConfig, beforeBuild, emptyDir settle
SettlePlugin(s, ok, cfg) ==
    /\ s \in {"init", "modifyConfig", "beforeBuild", "emptyDir"}
    /\ step[s] = "running"
    /\ modifiedConfig' = IF s = "modifyConfig" /\ ok THEN cfg ELSE modifiedConfig
    /\ s = "modifyConfig" => cfg \in modifiable(config)
    /\ s # "modifyConfig" => cfg = config
    /\ LET st == [step EXCEPT ![s] = IF ok THEN "done" ELSE "failed"]
       IN  IF ~continues(ok)
           THEN step' = st /\ UNCHANGED bundleVars
           ELSE IF s = "emptyDir"
                THEN EnterBundle(st)
                ELSE /\ step' = [st EXCEPT
                                   ![CHOOSE n \in BuildSteps :
                                        \E i \in 1..(Len(BuildOrder) - 1) :
                                            BuildOrder[i] = s /\ BuildOrder[i + 1] = n]
                                       = "running"]
                     /\ UNCHANGED bundleVars
    /\ UNCHANGED <<config, enableSSG, renderVars, dirs, pureVars>>

\* line 278: afterBuild settles
SettleAfterBuild(ok) ==
    /\ step["afterBuild"] = "running"
    /\ step' = [step EXCEPT !["afterBuild"] = IF ok THEN "done" ELSE "failed"]
    /\ UNCHANGED <<config, modifiedConfig, enableSSG, bundleVars, renderVars, dirs,
                   pureVars>>

\* renderPages given the flag of the modified config instead of build's
EnterRenderPages_fromModified(st) ==
    /\ step' = [st EXCEPT !["renderPages"] = "running"]
    /\ rpc' = IF enableSSGOf(modifiedConfig) THEN "loadSSR" ELSE "readTemplate"
    /\ ssrImport' = IF enableSSGOf(modifiedConfig) THEN "pending" ELSE "idle"
    /\ UNCHANGED <<render, routes, task, files, log>>

\* line 277: renderPages is called (lines 149-160)
EnterRenderPages(st) ==
    /\ step' = [st EXCEPT !["renderPages"] = "running"]
    /\ rpc' = IF enableSSG THEN "loadSSR" ELSE "readTemplate"
    /\ ssrImport' = IF enableSSG THEN "pending" ELSE "idle"
    /\ UNCHANGED <<render, routes, task, files, log>>

\* ------------------------------------------------------------------------
\* bundle (lines 95-133)
\* ------------------------------------------------------------------------

\* the search index written only when the try block did not throw
writesSearchIndex_onSuccess(thrown) == ~thrown

\* lines 130-132: finally, on every way out of the try block
writesSearchIndex(thrown) == TRUE

\* what bundle does when the call j it awaits settles, job being the calls'
\* states after it: the awaited Promise.all may still pend
bundleContinues(j, jb, ok, exists) ==
    CASE bpc = "init" /\ j \in inits(enableSSG) ->
            (CASE promiseAll(jb, inits(enableSSG)) = "fulfilled" -> "build"
               [] promiseAll(jb, inits(enableSSG)) = "rejected" -> "catch"
               [] OTHER -> "wait")
      [] bpc = "build" /\ j \in builds(enableSSG) ->
            (CASE promiseAll(jb, builds(enableSSG)) = "fulfilled" -> "pathExists"
               [] promiseAll(jb, builds(enableSSG)) = "rejected" -> "catch"
               [] OTHER -> "wait")
      [] bpc = "pathExists" /\ j = "pathExists" ->
            IF ~ok THEN "catch" ELSE IF exists THEN "copy" ELSE "leave"
      [] bpc = "copy" /\ j = "copy" -> IF ok THEN "leave" ELSE "catch"
      [] bpc = "finally" /\ j = "searchIndex" ->
            IF ok /\ ~bundleThrown THEN "return" ELSE "throw"
      [] OTHER -> "wait"

\* a call of bundle settles; bundle goes on when it awaits that call
SettleJob(j, ok, exists) ==
    /\ job[j] = "running"
    /\ LET jb == [job EXCEPT ![j] = IF ok THEN "done" ELSE "failed"]
           c == bundleContinues(j, jb, ok, exists)
           thrown == (c = "catch")
           \* the try block is left and finally calls writeSearchIndex
           toFinally == c \in {"catch", "leave"} /\ writesSearchIndex(thrown)
           \* the try block is left and nothing is called on the way out
           toExit == c \in {"catch", "leave"} /\ ~writesSearchIndex(thrown)
           returns == c = "return" \/ (toExit /\ ~thrown)
           throws == c = "throw" \/ (toExit /\ thrown)
       IN  /\ job' = [k \in BundleJobs |->
                        IF c = "build" /\ k \in builds(enableSSG) THEN "running"
                        ELSE IF c = "pathExists" /\ k = "pathExists" THEN "running"
                        ELSE IF c = "copy" /\ k = "copy" THEN "running"
                        ELSE IF toFinally /\ k = "searchIndex" THEN "running"
                        ELSE jb[k]]
           /\ bpc' = IF c \in {"build", "pathExists", "copy"} THEN c
                     ELSE IF toFinally THEN "finally"
                     ELSE IF returns THEN "returned"
                     ELSE IF throws THEN "threw"
                     ELSE bpc
           /\ bundleThrown' = (bundleThrown \/ thrown)
           /\ searchIndexCalls' = searchIndexCalls + (IF toFinally THEN 1 ELSE 0)
           /\ dirs' = IF ok /\ j = "clientBuild" THEN dirs \cup {"html"}
                      ELSE IF ok /\ j = "ssrBuild" THEN dirs \cup {"ssr"}
                      ELSE dirs
           /\ IF returns
              THEN EnterRenderPages([step EXCEPT !["bundle"] = "done"])
              ELSE /\ step' = IF throws THEN [step EXCEPT !["bundle"] = "failed"]
                              ELSE step
                   /\ UNCHANGED renderVars
    /\ UNCHANGED <<config, modifiedConfig, enableSSG, pureVars>>

\* ------------------------------------------------------------------------
\* renderPages (lines 143-263)
\* ------------------------------------------------------------------------

\* the pages of the route service, as paths below the base
PagePathList == << <<"/", "a", "/", "d">>, <<"/", "a", "/">>, <<"/", ":", "i">> >>

\* the entries of list at the positions in I, in the order of list
RECURSIVE pick(_, _, _)
pick(list, I, i) ==
    IF i > Len(list) THEN <<>>
    ELSE (IF i \in I THEN <<list[i]>> ELSE <<>>) \o pick(list, I, i + 1)

\* the sets of pages the route service may hold: distinct paths, at most
\* MaxRoutes of them
PageTables ==
    {pick(PagePathList, I, 1) :
        I \in {J \in SUBSET (1..Len(PagePathList)) : Cardinality(J) <= MaxRoutes}}

\* routeService.getRoutes(): the route path of a page is its path under
\* the base
getRoutes(pages, base) == [i \in 1..Len(pages) |-> withBase(pages[i], base)]

\* the paths plugins return from addSSGRoutes
ExtraPaths == {<<"/", "a", "/", "d">>, <<"/", ":", "i">>}

ExtraLists == SeqsUpTo(ExtraPaths, MaxRoutes)

\* every route taken for a static one
isStatic_all(routePath) == TRUE

\* line 188: a route without dynamic parameters
isStatic(routePath) == ~includes(routePath, ":")

\* what render resolves to for a route: its appHtml, and the helmet it
\* leaves in the route's helmetContext
renderedApp(routePath) == <<"<main>">> \o routePath \o <<"</main>">>

helmetOf(routePath) ==
    [set |-> TRUE, title |-> <<"<title>">> \o routePath \o <<"</title>">>,
     meta |-> <<>>, link |-> <<>>, style |-> <<>>, script |-> <<>>,
     htmlAttributes |-> <<"lang=en">>, bodyAttributes |-> <<"class=b">>]

\* the state of a task as a promise
taskStatus(tk) ==
    [t \in DOMAIN tk |-> IF tk[t].pc \in {"done", "failed"} THEN tk[t].pc ELSE "running"]

\* the tasks of the fan-out: the routes that passed the filter
launched(tk) == {t \in DOMAIN tk : tk[t].pc # "filtered"}

\* the file a task writes
fileOf(tk, t) == joinOutput(normalizeHtmlFilePath(tk[t].path, modifiedConfig.base))

\* the page a task writes
htmlOf(tk, t) == renderHtml(HtmlTemplate, tk[t].appHtml, modifiedConfig.head, tk[t].helmet)

\* line 260: the catch reads e.stack for the log line, which throws a
\* TypeError when the caught value is null or undefined
catchPages(thrown) == IF thrown = "nullish" THEN "throws" ELSE "logged"

\* lines 259-262: the catch took what was thrown; it is logged and thrown
\* again, or the TypeError of line 260 leaves renderPages instead
RenderPagesThrows(thrown) ==
    /\ rpc' = "threw"
    /\ log' = [log EXCEPT !.pagesError =
                            @ + (IF catchPages(thrown) = "logged" THEN 1 ELSE 0)]
    /\ step' = [step EXCEPT !["renderPages"] = "failed"]

\* the load failure thrown on instead of caught
afterLoad_rethrow(outcome) == IF outcome = "failed" THEN "threw" ELSE "readTemplate"

\* lines 161-172: a failed load is caught; renderPages goes on
afterLoad(outcome) == "readTemplate"

\* lines 160-173: the import of the SSR bundle settles.  It resolves to a
\* module with a render function ("loaded") or without one ("noRender"), or
\* the import or the destructuring of its default export throws ("failed").
LoadSSR(outcome) ==
    /\ rpc = "loadSSR"
    /\ ssrImport' = outcome
    /\ render' = IF outcome = "loaded" THEN "fn" ELSE "null"
    /\ IF afterLoad(outcome) = "threw"
       THEN RenderPagesThrows("error")
       ELSE /\ rpc' = afterLoad(outcome)
            /\ log' = [log EXCEPT !.loadWarn = @ + (IF outcome = "failed" THEN 1 ELSE 0)]
            /\ UNCHANGED step
    /\ UNCHANGED <<config, modifiedConfig, enableSSG, bundleVars, routes, task, files,
                   dirs, pureVars>>

\* lines 175-181: the template is read; addSSGRoutes is called
ReadTemplate(ok) ==
    /\ rpc = "readTemplate"
    /\ IF ok
       THEN rpc' = "addSSGRoutes" /\ UNCHANGED <<log, step>>
       ELSE RenderPagesThrows("error")
    /\ UNCHANGED <<config, modifiedConfig, enableSSG, bundleVars, ssrImport, render, routes, task,
                   files, dirs, pureVars>>

\* the tasks after the synchronous part of the fan-out (lines 185-198, 249):
\* each static route's task has called render, or ensureDir when there is
\* no render function
fanOut(all) ==
    [t \in 1..Len(all) |->
        [path |-> all[t],
         pc |-> IF ~isStatic(all[t]) THEN "filtered"
                ELSE IF render = "fn" THEN "render" ELSE "ensureDir",
         called |-> isStatic(all[t]) /\ render = "fn",
         thrown |-> "none",
         warned |-> FALSE,
         failedAt |-> "none",
         appHtml |-> <<>>,
         helmet |-> NoHelmet]]

\* no fan-in: renderPages goes on to the removals when a task settles
FanIn_eager(tk) ==
    IF rpc # "fanout" THEN UNCHANGED <<rpc, log, step>>
    ELSE rpc' = "removeSsr" /\ UNCHANGED <<log, step>>

\* the fan-in (line 184) and what follows it, tk being the tasks now.  What
\* a task rejects with is an Error: one of fs, or the TypeError of line 201.
FanIn(tk) ==
    IF rpc # "fanout" THEN UNCHANGED <<rpc, log, step>>
    ELSE CASE promiseAll(taskStatus(tk), launched(tk)) = "rejected" ->
                RenderPagesThrows("error")
           [] promiseAll(taskStatus(tk), launched(tk)) = "fulfilled" ->
                rpc' = "removeSsr" /\ UNCHANGED <<log, step>>
           [] OTHER -> UNCHANGED <<rpc, log, step>>

\* lines 181-190: addSSGRoutes settles; the tasks are launched.  pages are
\* the pages of the route service, whose routes line 175 read.  The hook
\* resolves ("ok") or rejects with what a plugin threw: an Error ("error"),
\* or null or undefined ("nullish").
AddSSGRoutes(outcome, pages, extra) ==
    /\ rpc = "addSSGRoutes"
    /\ Len(pages) + Len(extra) <= MaxRoutes
    /\ outcome # "ok" => pages = <<>> /\ extra = <<>>
    /\ IF outcome # "ok"
       THEN RenderPagesThrows(outcome) /\ UNCHANGED <<routes, task>>
       ELSE LET all == getRoutes(pages, modifiedConfig.base)
                       \o [i \in 1..Len(extra) |->
                              withBase(extra[i], modifiedConfig.base)]
                tk == fanOut(all)
            IN  /\ routes' = all
                /\ task' = tk
                /\ IF launched(tk) = {}
                   THEN rpc' = "removeSsr"
                   ELSE rpc' = "fanout"
                /\ UNCHANGED <<log, step>>
    /\ UNCHANGED <<config, modifiedConfig, enableSSG, bundleVars, ssrImport, render, files, dirs,
                   pureVars>>

\* lines 199-204: the catch reads e.message for the warning, which throws a
\* TypeError when the thrown value is null or undefined
catchRender(thrown) == IF thrown = "nullish" THEN "throws" ELSE "warned"

\* lines 198-205, 249: the render call of a task settles
SettleRender(t, outcome, helmetSet) ==
    /\ t \in DOMAIN task
    /\ task[t].pc = "render"
    /\ outcome = "ok" => helmetSet
    /\ outcome = "nullish" => ~helmetSet
    /\ LET tk == [task EXCEPT
                    ![t].thrown = IF outcome = "ok" THEN "none" ELSE outcome,
                    ![t].appHtml = IF outcome = "ok" THEN renderedApp(task[t].path)
                                   ELSE <<>>,
                    ![t].helmet = IF helmetSet THEN helmetOf(task[t].path) ELSE NoHelmet,
                    ![t].warned = outcome # "ok" /\ catchRender(outcome) = "warned",
                    ![t].failedAt = IF outcome # "ok" /\ catchRender(outcome) = "throws"
                                    THEN "catch" ELSE "none",
                    ![t].pc = IF outcome # "ok" /\ catchRender(outcome) = "throws"
                              THEN "failed" ELSE "ensureDir"]
       IN  task' = tk /\ FanIn(tk)
    /\ UNCHANGED <<config, modifiedConfig, enableSSG, bundleVars, ssrImport, render, routes, files,
                   dirs, pureVars>>

\* line 249-250: ensureDir settles; writeFile is called
SettleEnsureDir(t, ok) ==
    /\ t \in DOMAIN task
    /\ task[t].pc = "ensureDir"
    /\ LET tk == [task EXCEPT ![t].pc = IF ok THEN "writeFile" ELSE "failed",
                               ![t].failedAt = IF ok THEN "none" ELSE "ensureDir"]
       IN  task' = tk /\ FanIn(tk)
    /\ UNCHANGED <<config, modifiedConfig, enableSSG, bundleVars, ssrImport, render, routes, files,
                   dirs, pureVars>>

\* line 250: writeFile settles; the task is over
SettleWriteFile(t, ok) ==
    /\ t \in DOMAIN task
    /\ task[t].pc = "writeFile"
    /\ LET tk == [task EXCEPT ![t].pc = IF ok THEN "done" ELSE "failed",
                               ![t].failedAt = IF ok THEN "none" ELSE "writeFile"]
           f == fileOf(task, t)
       IN  /\ task' = tk
           /\ files' = IF ~ok THEN files
                       ELSE (f :> [html |-> htmlOf(task, t),
                                   writers |-> (IF f \in DOMAIN files
                                                THEN files[f].writers ELSE {}) \cup {t}])
                            @@ files
           /\ FanIn(tk)
    /\ UNCHANGED <<config, modifiedConfig, enableSSG, bundleVars, ssrImport, render, routes, dirs,
                   pureVars>>

\* lines 254-258: an intermediate directory is removed; after the second
\* one renderPages returns and build calls afterBuild (line 278)
SettleRemove(ok) ==
    /\ rpc \in {"removeSsr", "removeHtml"}
    /\ IF ~ok
       THEN RenderPagesThrows("error") /\ UNCHANGED dirs
       ELSE IF rpc = "removeSsr"
            THEN /\ dirs' = dirs \ {"ssr"}
                 /\ rpc' = "removeHtml"
                 /\ UNCHANGED <<log, step>>
            ELSE /\ dirs' = dirs \ {"html"}
                 /\ rpc' = "returned"
                 /\ log' = [log EXCEPT !.success = @ + 1]
                 /\ step' = [step EXCEPT !["renderPages"] = "done",
                                         !["afterBuild"] = "running"]
    /\ UNCHANGED <<config, modifiedConfig, enableSSG, bundleVars, ssrImport, render, routes, task,
                   files, pureVars>>

\* ------------------------------------------------------------------------
\* The pipeline
\* ------------------------------------------------------------------------

Next ==
    \/ \E s \in BuildSteps, ok \in BOOLEAN, cfg \in Configs : SettlePlugin(s, ok, cfg)
    \/ \E j \in BundleJobs, ok \in BOOLEAN, exists \in BOOLEAN : SettleJob(j, ok, exists)
    \/ \E outcome \in {"loaded", "noRender", "failed"} : LoadSSR(outcome)
    \/ \E ok \in BOOLEAN : ReadTemplate(ok)
    \/ \E outcome \in {"ok", "error", "nullish"}, pages \in PageTables,
          extra \in ExtraLists :
            AddSSGRoutes(outcome, pages, extra)
    \/ \E t \in 1..MaxRoutes, outcome \in {"ok", "error", "nullish"}, h \in BOOLEAN :
            SettleRender(t, outcome, h)
    \/ \E t \in 1..MaxRoutes, ok \in BOOLEAN : SettleEnsureDir(t, ok)
    \/ \E t \in 1..MaxRoutes, ok \in BOOLEAN : SettleWriteFile(t, ok)
    \/ \E ok \in BOOLEAN : SettleRemove(ok)
    \/ \E ok \in BOOLEAN : SettleAfterBuild(ok)

Spec == Init /\ [][Next]_vars

\* ------------------------------------------------------------------------
\* SpecPath: normalizeHtmlFilePath on every bounded route path and base
\* ------------------------------------------------------------------------

PathTokens == {"/", "a", "d"}

\* the path of a page below the base starts with "/" and has no empty
\* segment
PagePathInputs ==
    {p \in SeqsUpTo(PathTokens, MaxPathLen) :
        startsWith(p, <<"/">>) /\ collapseSlashes(p) = p}

BaseInputs == SeqsUpTo(PathTokens, MaxBaseLen)

InitPath ==
    /\ InitPipe
    /\ config = [set |-> TRUE, base |-> <<>>, ssg |-> "unset", head |-> << <<"<meta a>">> >>]
    /\ pBase \in BaseInputs
    /\ pPath \in {withBase(page, pBase) : page \in PagePathInputs}
    /\ pFile = NoFile
    /\ IdleHtml
    /\ IdleContent

\* lines 248-250: the file name of a route, joined to the output directory
DeriveFile ==
    /\ pFile = NoFile
    /\ pFile' = joinOutput(normalizeHtmlFilePath(pPath, pBase))
    /\ UNCHANGED <<pPath, pBase, pipeVars, htmlVars, contentVars>>

NextPath == DeriveFile

SpecPath == InitPath /\ [][NextPath]_vars

\* the text with prefix pre removed when it starts with pre, else unchanged
stripPrefix(s, pre) ==
    IF startsWith(s, pre) THEN SubSeq(s, Len(pre) + 1, Len(s)) ELSE s

\* the trailing-slash rule: <path>index.html or <path>.html
trailingSlashRule(path) ==
    IF endsWith(path, "/") THEN path \o <<"index", ".html">> ELSE path \o <<".html">>

\* the file of a route below the output directory, the normalized base
\* being removed from the front of the path only
prefixStrippedFile(path, configBase) ==
    joinOutput(stripPrefix(trailingSlashRule(path),
                           normalizeSlash(IF configBase = <<>> THEN <<"/">> ELSE configBase)))

\* C9: for every base and every route path under it, the file written is
\* the route path with "index.html" appended when it ends in "/" and ".html"
\* otherwise, with the normalized base removed as a prefix and nothing else
\* removed.
C9_BaseRemovedAsPrefixOnly ==
    pFile # NoFile => pFile = prefixStrippedFile(pPath, pBase)

\* base "/d": the route "/d/a/d", in which the base occurs again, is
\* written to a/d.html
C9_Witness ==
    /\ pBase = <<"/", "d">>
    /\ pPath = <<"/", "d", "/", "a", "/", "d">>
    /\ pFile = <<"a", "/", "d", ".html">>

\* base "/d": the route "/d/a/" is written to a/index.html
C9_TrailingSlashExample ==
    /\ pBase = <<"/", "d">>
    /\ pPath = <<"/", "d", "/", "a", "/">>
    /\ pFile = <<"a", "/", "index", ".html">>

\* ------------------------------------------------------------------------
\* SpecHtml: the page of a route for every bounded appHtml, head and helmet
\* ------------------------------------------------------------------------

\* the characters of the texts put into a page: a plain one, and the two
\* of the replacement pattern "$&"
HtmlTokens == {"x", "$", "&"}

Texts == SeqsUpTo(HtmlTokens, MaxTextLen)

\* a helmet whose title and attributes are the text x; its other tags are
\* one token each
helmetWith(x) ==
    [set |-> TRUE, title |-> x, meta |-> <<"<meta m>">>, link |-> <<"<link>">>,
     style |-> <<"<style>">>, script |-> <<"<script>">>,
     htmlAttributes |-> x, bodyAttributes |-> x]

InitHtml ==
    /\ InitPipe
    /\ config = [set |-> TRUE, base |-> <<>>, ssg |-> "unset", head |-> << <<"<meta a>">> >>]
    /\ IdlePath
    /\ IdleContent
    /\ hApp \in Texts
    /\ hHead \in {<<>>} \cup {<<x>> : x \in Texts}
    /\ hHelmet \in {NoHelmet} \cup {helmetWith(x) : x \in Texts}
    /\ hHtml = NoHtml

\* lines 207-237: the page of the route is made from the template
MakePage ==
    /\ hHtml = NoHtml
    /\ hHtml' = renderHtml(HtmlTemplate, hApp, hHead, hHelmet)
    /\ UNCHANGED <<hApp, hHead, hHelmet, pipeVars, pathVars, contentVars>>

NextHtml == MakePage

SpecHtml == InitHtml /\ [][NextHtml]_vars

\* C10: every text substituted into the page (the appHtml, the head text,
\* the attributes of the html and body tags) appears in it verbatim, as it
\* does when every replacement is made through a callback.
C10_SubstitutedVerbatim ==
    hHtml # NoHtml => hHtml = verbatimHtml(HtmlTemplate, hApp, hHead, hHelmet)

\* the head section of a page made from HtmlTemplate: the text between
\* "<head>" and "</head>"
headSectionOf(html) ==
    LET i == indexOf(html, <<"<head>">>)
        j == indexOf(html, <<"</head>">>)
    IN  IF i = 0 \/ j = 0 \/ j < i THEN <<"?">> ELSE SubSeq(html, i + 1, j - 1)

\* the rendered tags of a helmet, in the order title, meta, link, style,
\* script; nothing when no helmet was collected
renderedTags(helmet) ==
    IF helmet.set
    THEN helmet.title \o helmet.meta \o helmet.link \o helmet.style \o helmet.script
    ELSE <<>>

\* C11: the text that stands in the place of the head marker is the
\* configured head entries, then the rendered title, meta, link, style and
\* script tags, then the theme-detection script, in this order.
C11_HeadTextInOrder ==
    hHtml # NoHtml =>
        headSectionOf(hHtml)
            = joinTexts(hHead) \o renderedTags(hHelmet) \o <<CHECK_DARK_LIGHT_SCRIPT>>

\* ------------------------------------------------------------------------
\* SpecContent: Content and TransitionContent (lines 11-46)
\* ------------------------------------------------------------------------

\* String.prototype.split('/'): the parts between the slashes, empty ones
\* included
RECURSIVE splitFrom(_, _)
splitFrom(s, parts) ==
    IF s = <<>> THEN parts
    ELSE IF Head(s) = "/" THEN splitFrom(Tail(s), Append(parts, <<>>))
         ELSE splitFrom(Tail(s), [parts EXCEPT ![Len(parts)] = Append(@, Head(s))])

jsSplit(s) == splitFrom(s, << <<>> >>)

\* a segment that is a dynamic parameter (":" and a name)
isParam(segment) == Len(segment) >= 2 /\ segment[1] = ":"

\* the score react-router gives a route path: its number of segments, and
\* 10 for a static segment, 3 for a parameter, 1 for an empty segment
RECURSIVE segmentScores(_)
segmentScores(segments) ==
    IF segments = <<>> THEN 0
    ELSE (IF isParam(Head(segments)) THEN 3
          ELSE IF Head(segments) = <<>> THEN 1 ELSE 10)
         + segmentScores(Tail(segments))

computeScore(path) == Len(jsSplit(path)) + segmentScores(jsSplit(path))

\* a path without its trailing slashes
RECURSIVE stripTrailingSlashes(_)
stripTrailingSlashes(s) ==
    IF endsWith(s, "/") THEN stripTrailingSlashes(SubSeq(s, 1, Len(s) - 1)) ELSE s

\* matchPath of react-router with end: true: the pathname, trailing slashes
\* apart, has the segments of the pattern, a parameter standing for any
\* non-empty segment
matchPath(pattern, pathname) ==
    LET P == jsSplit(stripTrailingSlashes(pattern))
        U == jsSplit(stripTrailingSlashes(pathname))
    IN  /\ Len(P) = Len(U)
        /\ \A i \in 1..Len(P) : \/ P[i] = U[i]
                                \/ isParam(P[i]) /\ U[i] # <<>>

\* the position in rest of the highest score, the first in table order
\* among equal scores
topRanked(scores, rest) ==
    CHOOSE i \in rest :
        \A j \in rest : scores[i] > scores[j] \/ (scores[i] = scores[j] /\ i <= j)

\* the positions of the routes ranked as react-router ranks the branches of
\* a flat route table: by score, highest first; equal scores in table order
RECURSIVE rankFrom(_, _)
rankFrom(scores, rest) ==
    IF rest = {} THEN <<>>
    ELSE <<topRanked(scores, rest)>> \o rankFrom(scores, rest \ {topRanked(scores, rest)})

RECURSIVE scoresOf(_)
scoresOf(routeTable) ==
    IF routeTable = <<>> THEN <<>>
    ELSE <<computeScore(Head(routeTable).path)>> \o scoresOf(Tail(routeTable))

rankRouteBranches(routeTable) == rankFrom(scoresOf(routeTable), DOMAIN routeTable)

\* the result of matchRoutes: null, or the matches of one branch
NullMatch == [isNull |-> TRUE, matches |-> <<>>]

\* matchRoutes scanning the routes in table order
matchRoutes_tableOrder(routeTable, pathname) ==
    LET hits == {i \in DOMAIN routeTable : matchPath(routeTable[i].path, pathname)}
    IN  IF hits = {} THEN NullMatch
        ELSE [isNull |-> FALSE,
              matches |-> <<[route |-> routeTable[CHOOSE i \in hits :
                                                    \A j \in hits : i <= j]]>>]

\* matchRoutes of react-router on a flat route table: the first of the
\* ranked routes whose path matches, as a branch of one match; null when
\* none matches
matchRoutes(routeTable, pathname) ==
    LET ranked == rankRouteBranches(routeTable)
        hits == {k \in DOMAIN ranked : matchPath(routeTable[ranked[k]].path, pathname)}
    IN  IF hits = {} THEN NullMatch
        ELSE [isNull |-> FALSE,
              matches |-> <<[route |-> routeTable[ranked[CHOOSE k \in hits :
                                                            \A j \in hits : k <= j]]]>>]

\* normalizeRoutePath of ./utils: a trailing ".html" is dropped, then a
\* trailing "/index" becomes "/"
normalizeRoutePath(routePath) ==
    LET s == IF endsWith(routePath, ".html")
             THEN SubSeq(routePath, 1, Len(routePath) - 1) ELSE routePath
    IN  IF Len(s) >= 2 /\ s[Len(s) - 1] = "/" /\ s[Len(s)] = "index"
        THEN SubSeq(s, 1, Len(s) - 1)
        ELSE s

\* the lookup never taken for a failed one
noMatch_never(matched) == FALSE

\* line 31: !matched
noMatch(matched) == matched.isNull

\* the boundary bypassed on every server render
bypassSuspense_anySSR(gte18, ssr) == ssr

\* line 37: !process.env.__REACT_GTE_18__ && process.env.__SSR__
bypassSuspense(gte18, ssr) == ~gte18 /\ ssr

\* lines 25-46: what Content returns.  Reading matched[0] of null throws a
\* TypeError.
Content(routeTable, pathname, env) ==
    LET matched == matchRoutes(routeTable, normalizeRoutePath(pathname))
    IN  IF noMatch(matched) THEN [kind |-> "div", el |-> Unmounted]
        ELSE IF matched.isNull THEN [kind |-> "TypeError", el |-> Unmounted]
        ELSE LET routesElement == matched.matches[1].route.element
             IN  IF bypassSuspense(env.gte18, env.ssr)
                 THEN [kind |-> "direct", el |-> routesElement]
                 ELSE [kind |-> "suspense", el |-> routesElement]

\* a component that is not memoized: its body runs on every render
memoEqual_never(prevEl, nextEl) == FALSE

\* line 22: prevProps.el === nextProps.el
memoEqual(prevEl, nextEl) == prevEl = nextEl

\* lines 11-18: the element the body of TransitionContent returns
TransitionContentImpl(el, animation) == [wrapped |-> animation, el |-> el]

\* the paths of the routes of the table
ContentPatterns == {<<"/", "a", "/">>, <<"/", ":", "i">>, <<"/", "a", "/", "d">>}

\* __VIRTUAL_ROUTES__: the element of a route is a reference of its own
virtualRoutes(paths) == [i \in DOMAIN paths |-> [path |-> paths[i], element |-> i]]

ContentTables == {virtualRoutes(paths) : paths \in SeqsUpTo(ContentPatterns, MaxTableLen)}

\* the pathnames of the location
ContentPathnames ==
    {<<"/">>, <<"/", "a">>, <<"/", "a", "/">>, <<"/", "a", ".html">>,
     <<"/", "a", "/", "index", ".html">>, <<"/", "a", "/", "d">>,
     <<"/", "d", "/", "a">>}

InitContent ==
    /\ InitPipe
    /\ config = [set |-> TRUE, base |-> <<>>, ssg |-> "unset", head |-> << <<"<meta a>">> >>]
    /\ IdlePath
    /\ IdleHtml
    /\ cTable \in ContentTables
    /\ cEnv \in [gte18 : BOOLEAN, ssr : BOOLEAN, animation : BOOLEAN]
    /\ cPathname \in ContentPathnames
    /\ cOut = NotRendered
    /\ cRenders = 0
    /\ tcEl = Unmounted
    /\ tcRuns = 0
    /\ tcSkips = 0
    /\ tcWraps = 0
    /\ tcOut = NoElement

\* lines 11-46: Content is rendered at pathname; inside the Suspense
\* boundary TransitionContent is rendered with the matched element, and memo
\* skips its body when it is mounted and the comparison of line 22 holds
RenderContent(pathname) ==
    /\ cRenders < MaxRenders
    /\ cRenders' = cRenders + 1
    /\ cPathname' = pathname
    /\ LET out == Content(cTable, pathname, cEnv)
       IN  /\ cOut' = out
           /\ IF out.kind # "suspense"
              THEN /\ tcEl' = Unmounted
                   /\ tcOut' = NoElement
                   /\ UNCHANGED <<tcRuns, tcSkips, tcWraps>>
              ELSE IF tcEl # Unmounted /\ memoEqual(tcEl, out.el)
                   THEN /\ tcSkips' = tcSkips + 1
                        /\ UNCHANGED <<tcEl, tcRuns, tcWraps, tcOut>>
                   ELSE /\ tcEl' = out.el
                        /\ tcRuns' = tcRuns + 1
                        /\ tcWraps' = tcWraps + (IF cEnv.animation THEN 1 ELSE 0)
                        /\ tcOut' = TransitionContentImpl(out.el, cEnv.animation)
                        /\ UNCHANGED tcSkips
    /\ UNCHANGED <<cTable, cEnv, pipeVars, pathVars, htmlVars>>

\* the parent renders Content again at the same location
Rerender == RenderContent(cPathname)

\* the location changes and Content is rendered
Navigate(pathname) == pathname # cPathname /\ RenderContent(pathname)

NextContent ==
    \/ Rerender
    \/ \E pathname \in ContentPathnames : Navigate(pathname)

SpecContent == InitContent /\ [][NextContent]_vars

\* the routes of the table whose path matches the normalized pathname
matching(routeTable, pathname) ==
    {i \in DOMAIN routeTable : matchPath(routeTable[i].path, normalizeRoutePath(pathname))}

\* C16: when no route of the table matches the path, Content returns the
\* empty div; it never fails.
C16_NoMatchRendersPlaceholder ==
    cRenders > 0 =>
        /\ cOut.kind # "TypeError"
        /\ matching(cTable, cPathname) = {} <=> cOut = [kind |-> "div", el |-> Unmounted]

C16_Witness ==
    /\ cOut.kind = "div"
    /\ Len(cTable) = MaxTableLen
    /\ cPathname = <<"/", "d", "/", "a">>

\* C17: when a route matches, Content returns the matched element directly,
\* with no TransitionContent, exactly when the runtime is below React 18
\* and server rendering is on; otherwise the element is rendered by
\* TransitionContent inside the Suspense boundary.
C17_BypassOnLegacySSR ==
    (cRenders > 0 /\ matching(cTable, cPathname) # {}) =>
        IF ~cEnv.gte18 /\ cEnv.ssr
        THEN cOut.kind = "direct" /\ tcEl = Unmounted /\ tcOut = NoElement
        ELSE cOut.kind = "suspense" /\ tcEl = cOut.el /\ tcOut.el = cOut.el

C17_Witness ==
    /\ cOut.kind = "direct"
    /\ ~cEnv.gte18 /\ cEnv.ssr
    /\ cOut.el # Unmounted

\* the other three combinations, each inside the boundary
C17_InsideBoundary ==
    /\ cOut.kind = "suspense"
    /\ cEnv.ssr /\ cEnv.gte18

\* C18: on a render that finds TransitionContent mounted and leaves it
\* mounted, its body runs exactly when the element passed differs from the
\* one of the previous render; useViewTransition is called once per run of
\* the body when content animation is enabled and never otherwise, and
\* without animation the body returns the element as it is.
C18_BodyRunsOnChangedContent ==
    [][/\ (cOut.kind = "suspense" /\ cOut'.kind = "suspense") =>
             /\ cOut'.el # cOut.el => tcRuns' = tcRuns + 1
             /\ cOut'.el = cOut.el => tcRuns' = tcRuns /\ tcWraps' = tcWraps
       /\ tcWraps' - tcWraps = (IF cEnv.animation THEN tcRuns' - tcRuns ELSE 0)
       /\ (cOut'.kind = "suspense" /\ ~cEnv.animation) =>
             tcOut' = [wrapped |-> FALSE, el |-> cOut'.el]]_vars

\* two renders with the same element and one with another
C18_Witness ==
    /\ cEnv.animation
    /\ tcSkips >= 1
    /\ tcRuns = 2
    /\ tcWraps = 2

\* the path with its trailing slash added or removed
toggleSlash(path) ==
    IF endsWith(path, "/") THEN SubSeq(path, 1, Len(path) - 1) ELSE path \o <<"/">>

\* route i is the best-ranked of the routes in M: none of them has a higher
\* score, and none of the same score stands before it in the table
bestRanked(routeTable, M, i) ==
    /\ i \in M
    /\ \A j \in M :
          \/ computeScore(routeTable[j].path) < computeScore(routeTable[i].path)
          \/ /\ computeScore(routeTable[j].path) = computeScore(routeTable[i].path)
             /\ i <= j

\* whether a path matches a pattern does not depend on a trailing slash of
\* either
slashInsensitive(pattern, path) ==
    /\ matchPath(pattern, path) <=> matchPath(pattern, toggleSlash(path))
    /\ matchPath(pattern, path) <=> matchPath(toggleSlash(pattern), path)

\* C19 as claimed: Content renders the element of the first route of the
\* table that matches the normalized path.
C19_RendersFirstMatchInTable ==
    (cRenders > 0 /\ matching(cTable, cPathname) # {}) =>
        cOut.el = cTable[CHOOSE i \in matching(cTable, cPathname) :
                            \A j \in matching(cTable, cPathname) : i <= j].element

\* C19 as amended: Content renders the element of the best-ranked route
\* that matches the normalized path, table order deciding between routes of
\* equal rank; a trailing slash of the path or of a pattern does not change
\* what matches.
C19_RendersBestRankedMatch ==
    cRenders > 0 =>
        /\ matching(cTable, cPathname) # {} =>
              \E i \in matching(cTable, cPathname) :
                  /\ bestRanked(cTable, matching(cTable, cPathname), i)
                  /\ cOut.el = cTable[i].element
        /\ \A i \in DOMAIN cTable :
              slashInsensitive(cTable[i].path, normalizeRoutePath(cPathname))

\* "/a.html" is looked up as "/a" and finds the route "/a/", which stands
\* behind the route "/:i" in the table
C19_Witness ==
    /\ cPathname = <<"/", "a", ".html">>
    /\ Len(cTable) = 2
    /\ cTable[1].path = <<"/", ":", "i">>
    /\ cTable[2].path = <<"/", "a", "/">>
    /\ cOut.el = 2

\* ------------------------------------------------------------------------
\* Claims about the pipeline (Spec)
\* ------------------------------------------------------------------------

\* the fan-in of renderPages is passed: every task is over
fanInDone == rpc \in {"removeSsr", "removeHtml", "returned"}

\* the file the spec gives a route of the build
expectedFile(t) == prefixStrippedFile(task[t].path, modifiedConfig.base)

\* the files task t wrote
writtenBy(t) == {f \in DOMAIN files : t \in files[f].writers}

\* task t alone wrote file f, so f holds t's page
onlyWriter(f, t) == f \in DOMAIN files /\ files[f].writers = {t}

\* C1: whatever the render call of a route throws, the route's task goes on
\* to write its file with an empty app root, the other routes' files hold
\* their own rendered content, and the failure does not reject renderPages.
C1_RenderFailureNeverAborts ==
    /\ \A t \in DOMAIN task : task[t].thrown # "none" => task[t].failedAt # "catch"
    /\ \A t \in DOMAIN task : \A f \in DOMAIN files :
          onlyWriter(f, t) =>
             appRootOf(files[f].html) =
                IF task[t].called /\ task[t].thrown = "none"
                THEN renderedApp(task[t].path) ELSE <<>>
    /\ fanInDone => \A t \in launched(task) : writtenBy(t) # {}

\* C2 (state part): the load-failure warning is logged once when the load
\* of the SSR bundle failed and never otherwise; after a failed load no
\* render call is made, every file written has an empty app root and, once
\* the tasks are over, every static route has its file.
C2_AfterLoadFailure ==
    /\ log.loadWarn = (IF ssrImport = "failed" THEN 1 ELSE 0)
    /\ ssrImport = "failed" =>
          /\ render = "null"
          /\ \A t \in DOMAIN task : ~task[t].called
          /\ \A f \in DOMAIN files : appRootOf(files[f].html) = <<>>
          /\ fanInDone => \A t \in launched(task) : writtenBy(t) # {}

\* C2: with static generation enabled, a failed load of the SSR bundle does
\* not make renderPages throw (the load step never ends in the catch of
\* line 259), and C2_AfterLoadFailure holds throughout.
C2_LoadFailureFallsBack ==
    /\ [](C2_AfterLoadFailure)
    /\ [][rpc = "loadSSR" => rpc' \notin {"threw", "loadSSR"}]_vars

C2_Witness ==
    /\ ssrImport = "failed"
    /\ rpc = "returned"
    /\ Cardinality(DOMAIN files) >= 2

\* the steps of the pipeline as the spec lists them
PipelineOrder ==
    <<"init", "modifyConfig", "beforeBuild", "emptyDir", "bundling", "copy",
      "searchIndex", "renderPages", "afterBuild">>

\* the state of the client (and SSR) bundling: failed when a builder's
\* initialisation or build failed, done when every build is done
bundlingStatus ==
    IF bpc = "idle" THEN "idle"
    ELSE IF \E j \in {"clientInit", "ssrInit", "clientBuild", "ssrBuild"} :
                job[j] = "failed"
         THEN "failed"
         ELSE IF \A j \in builds(enableSSG) : job[j] = "done" THEN "done"
              ELSE "running"

\* the state of the copy of the public directory (pathExists, then copy
\* when the directory exists)
copyStatus ==
    IF job["pathExists"] = "idle" THEN "idle"
    ELSE IF "failed" \in {job["pathExists"], job["copy"]} THEN "failed"
         ELSE IF "running" \in {job["pathExists"], job["copy"]} THEN "running"
              ELSE "done"

pipelineStatus(s) ==
    CASE s = "bundling" -> bundlingStatus
      [] s = "copy" -> copyStatus
      [] s = "searchIndex" -> job["searchIndex"]
      [] OTHER -> step[s]

\* step k of the pipeline, once started, has every earlier step done
startedInOrder(k) ==
    pipelineStatus(PipelineOrder[k]) # "idle" =>
        \A i \in 1..(k - 1) : pipelineStatus(PipelineOrder[i]) = "done"

\* C3 as claimed: every step of the pipeline starts only when every earlier
\* step completed without error.
C3_StrictPipeline == \A k \in 1..Len(PipelineOrder) : startedInOrder(k)

\* C3 as amended: every step but the search-index write starts only when
\* every earlier step completed without error; the search-index write starts
\* when the try block of bundle is left, after a failure too.
C3_PipelineButSearchIndex ==
    /\ \A k \in 1..Len(PipelineOrder) :
          PipelineOrder[k] # "searchIndex" => startedInOrder(k)
    /\ job["searchIndex"] # "idle" =>
          /\ \A s \in {"init", "modifyConfig", "beforeBuild", "emptyDir"} :
                step[s] = "done"
          /\ \/ bundlingStatus = "failed"
             \/ bundlingStatus = "done" /\ copyStatus \in {"done", "failed"}

C3_Witness ==
    /\ step["afterBuild"] = "done"
    /\ job["copy"] = "done"
    /\ enableSSG

\* C4: on every exit of bundle, by return or by throw, writeSearchIndex was
\* called exactly once and has settled; it is not called before the try
\* block is left.
C4_SearchIndexOnEveryExit ==
    /\ searchIndexCalls <= 1
    /\ bpc \in {"idle", "init", "build", "pathExists", "copy"} => searchIndexCalls = 0
    /\ bpc \in {"returned", "threw"} =>
          searchIndexCalls = 1 /\ job["searchIndex"] \in {"done", "failed"}

C4_Witness ==
    /\ bpc = "threw"
    /\ job["clientBuild"] = "failed"
    /\ job["searchIndex"] = "done"

\* the two builds are started together
buildsStartTogether == (job["clientBuild"] = "idle") <=> (job["ssrBuild"] = "idle")

bothBuildsDone == job["clientBuild"] = "done" /\ job["ssrBuild"] = "done"

\* C5 as claimed: with static generation the two builds start together, and
\* every later step (the copy, the search-index write, page rendering, the
\* after-build hook) starts only after both builds completed.
C5_LaterStepsAfterBothBuilds ==
    enableSSG =>
        /\ buildsStartTogether
        /\ \A s \in {"copy", "searchIndex", "renderPages", "afterBuild"} :
              pipelineStatus(s) # "idle" => bothBuildsDone

\* C5 as amended: the two builds start together; the copy, page rendering
\* and the after-build hook start only after both builds completed; the
\* search-index write starts after both completed or after a builder failed.
C5_RenderAfterBothBuilds ==
    enableSSG =>
        /\ buildsStartTogether
        /\ \A s \in {"copy", "renderPages", "afterBuild"} :
              pipelineStatus(s) # "idle" => bothBuildsDone
        /\ job["searchIndex"] # "idle" => bothBuildsDone \/ bundlingStatus = "failed"

\* the SSR build completed while the client build still runs
C5_Witness ==
    /\ enableSSG
    /\ job["ssrBuild"] = "done"
    /\ job["clientBuild"] = "running"

\* the other completion order
C5_ClientFirst ==
    /\ enableSSG
    /\ job["clientBuild"] = "done"
    /\ job["ssrBuild"] = "running"

\* C6: with ssg set to false no SSR builder is initialised or built,
\* renderPages neither loads the SSR bundle nor calls render, and every
\* static route's file is written with an empty app root.
C6_DisabledSkipsSSR ==
    config.ssg = "false" =>
        /\ job["ssrInit"] = "idle" /\ job["ssrBuild"] = "idle"
        /\ rpc # "loadSSR" /\ ssrImport = "idle" /\ log.loadWarn = 0
        /\ render = "null"
        /\ \A t \in DOMAIN task : ~task[t].called
        /\ \A f \in DOMAIN files : appRootOf(files[f].html) = <<>>
        /\ fanInDone => \A t \in launched(task) : writtenBy(t) # {}

C6_Witness ==
    /\ config.ssg = "false"
    /\ rpc = "returned"
    /\ Cardinality(DOMAIN files) >= 2

\* C7: after a render pass that completed, every route without ":" has
\* written exactly one file, the one the trailing-slash rule gives it (the
\* base stripped); for a route with ":" render was not called and nothing
\* was written.
C7_OneFilePerStaticRoute ==
    rpc = "returned" =>
        \A t \in DOMAIN task :
            IF includes(routes[t], ":")
            THEN ~task[t].called /\ writtenBy(t) = {}
            ELSE writtenBy(t) = {expectedFile(t)}

C7_Witness ==
    /\ rpc = "returned"
    /\ \E t \in DOMAIN task : includes(routes[t], ":")
    /\ \E t \in DOMAIN task : endsWith(routes[t], "/") /\ writtenBy(t) # {}

\* C8: no two tasks of the fan-out write the same output file.
C8_DisjointOutputFiles ==
    \A f \in DOMAIN files : Cardinality(files[f].writers) <= 1

\* C12: the removals of 'ssr' and 'html' start only when every task of the
\* fan-out is over, while a task runs both directories are still there, and
\* a render pass that returned has removed both.
C12_RemovedAfterAllTasks ==
    /\ rpc \in {"removeSsr", "removeHtml", "returned"} =>
          \A t \in DOMAIN task : task[t].pc \in {"filtered", "done"}
    /\ (\E t \in DOMAIN task : task[t].pc \in {"render", "ensureDir", "writeFile"}) =>
          "html" \in dirs /\ (enableSSG => "ssr" \in dirs)
    /\ rpc = "returned" => "ssr" \notin dirs /\ "html" \notin dirs

C12_Witness ==
    /\ rpc = "returned"
    /\ enableSSG
    /\ Cardinality(DOMAIN files) >= 2
    /\ dirs = {}

\* C13: renderPages is past the fan-out (at the removals, returned or
\* thrown) only when no task of the fan-out is still in progress.
C13_WaitsForAllTasks ==
    rpc \in {"removeSsr", "removeHtml", "returned", "threw"} =>
        \A t \in DOMAIN task : task[t].pc \in {"filtered", "done", "failed"}

\* C14: when renderPages throws, the error was logged by the catch of line
\* 259, renderPages is failed and afterBuild is not called; nothing else is
\* logged as a pages error.
C14_FatalErrorLoggedAndRethrown ==
    /\ rpc = "threw" =>
          /\ log.pagesError = 1
          /\ step["renderPages"] = "failed"
          /\ step["afterBuild"] = "idle"
    /\ rpc # "threw" => log.pagesError = 0

\* C15: the file of a task that is over holds the page made of the
\* template, the configuration and the task's own render result and helmet,
\* whatever the other tasks did and in whatever order.
C15_OwnRenderDecidesOutput ==
    \A t \in DOMAIN task :
        task[t].pc = "done" =>
            /\ fileOf(task, t) \in DOMAIN files
            /\ files[fileOf(task, t)].html = htmlOf(task, t)

\* C20: enableSSG is config.ssg ?? true of the user's config throughout;
\* bundle initialises the SSR builder exactly when it is set, and
\* renderPages imports the SSR bundle exactly when it is set, which is
\* exactly when bundle built the SSR bundle; the ssg of the modified config
\* plays no part.
C20_FlagFixedFromUserConfig ==
    /\ enableSSG = enableSSGOf(config)
    /\ bpc # "idle" => (job["ssrInit"] # "idle" <=> enableSSG)
    /\ rpc # "idle" =>
          /\ ssrImport # "idle" <=> enableSSG
          /\ ssrImport # "idle" <=> job["ssrBuild"] = "done"

\* the plugins turned ssg off; the SSR bundle was built and is loaded
C20_Witness ==
    /\ config.ssg = "true"
    /\ modifiedConfig.set /\ modifiedConfig.ssg = "false"
    /\ job["ssrBuild"] = "done"
    /\ ssrImport = "loaded"

\* the plugins turned ssg on; no SSR bundle is built or loaded
C20_WitnessOff ==
    /\ config.ssg = "false"
    /\ modifiedConfig.set /\ modifiedConfig.ssg = "true"
    /\ rpc = "returned"
    /\ ssrImport = "idle"

====
